---- MODULE Spec2Model ----
(***************************************************************************)
(* Capture-session state machine of src-tauri/src/recording.rs.           *)
(*                                                                         *)
(* The Tauri commands start_screen_recording, start_webcam_recording,      *)
(* stop_recording and get_recording_status are async handlers that the     *)
(* runtime runs concurrently.  Each handler is modelled as a sequence of   *)
(* atomic steps; a step boundary is placed wherever the handler releases   *)
(* or acquires a mutex, sleeps, or talks to the child process.             *)
(*                                                                         *)
(* ExportSpec is the export of src-tauri/src/ffmpeg.rs: one export_video   *)
(* call, with build_filter_complex as an operator, over bounded clip       *)
(* lists.  CameraSpec is list_cameras of the same file over bounded device  *)
(* lists.  JobSpec is one transcribe_clip or generate_thumbnail call of     *)
(* src-tauri/src/commands.rs.  FormatSpec is format_srt_time and            *)
(* format_vtt_time of src-tauri/src/transcription.rs, with the f64          *)
(* operations carried out bit by bit.  LiveSpec is Spec with the fairness   *)
(* of the stop_recording steps.                                             *)
(***************************************************************************)
EXTENDS Naturals, Integers, Sequences, FiniteSets, TLC

(* ------------------------------ bounds -------------------------------- *)
MaxCalls == 3        \* command invocations in one behaviour
MaxProcs == 2        \* capture processes spawned in one behaviour
MaxTime == 1         \* clock saturates here (one unit = 500 ms)

(* ------------------------- program constants -------------------------- *)
WebcamStartGraceMs == 500
StopGraceMs == 1000

Threads == { "w1", "w2" }   \* runtime workers that run handlers concurrently
NoThread == "none"
ProcIds == 1..MaxProcs

(* Option<T>: None is the empty sequence, Some(x) the one-element one. *)
None == << >>
Some(x) == << x >>
IsSome(o) == Len(o) = 1
Unwrap(o) == o[1]

(* Text is a sequence of words; str::contains is sub-sequence search. *)
Contains(text, pat) ==
    \E i \in 1..(Len(text) + 1) :
        /\ i + Len(pat) - 1 <= Len(text)
        /\ SubSeq(text, i, i + Len(pat) - 1) = pat

IsEmpty(text) == Len(text) = 0

(* What a capture process may have written to its error stream by the   *)
(* time the stream is read to its end.                                    *)
StderrTexts ==
    { << >>,
      <<"Permission", "denied">>,
      <<"No", "permission">>,
      <<"Device", "not", "found">>,
      <<"No", "such", "device">>,
      <<"Unknown", "error">> }

(* ExitStatus of a child that ended by itself. *)
ExitStatuses == { "exit0", "exit1" }

(* Arguments the UI may pass. *)
Paths == { "a.mp4", "b.mp4" }
CameraIndexes == { 0 }

Screen == [type |-> "screen"]
Webcam(i) == [type |-> "webcam", camera_index |-> i]
Kinds == { Screen } \cup { Webcam(i) : i \in CameraIndexes }

(* Result<_, String> values; messages keep the format! pieces apart. *)
Msg(kind, text) == [kind |-> kind, text |-> text]
Ok(val) == [tag |-> "Ok", val |-> val]
Err(msg) == [tag |-> "Err", msg |-> msg]

AlreadyRecordingMsg == Msg("Recording is already in progress", << >>)
NotRecordingMsg == Msg("No recording in progress", << >>)
ProcessNotFoundMsg == Msg("Recording process not found", << >>)
PermissionDeniedMsg ==
    Msg("Camera permission denied. Please grant camera access in System Settings.", << >>)
CameraNotFoundMsg == Msg("Camera not found or not accessible.", << >>)
EmptyFileMsg ==
    Msg("Recording produced an empty file. Camera may not have been accessed.", << >>)
FileNotFoundMsg(path) == Msg("Recording file not found at: ", << path >>)
NoOutputPathMsg == Msg("No output path found", << >>)
ExitedWithErrorMsg(text) == Msg("FFmpeg process exited with error: ", text)
ExitedImmediatelyMsg(text) == Msg("FFmpeg exited immediately: ", text)
ExitedImmediatelyStatusMsg(status) ==
    Msg("FFmpeg exited immediately with status: ", << status >>)
BinariesNotFoundMsg == Msg("FFmpeg binaries not found. Attempted paths:", << >>)
SpawnFailedMsg(kind) ==
    IF kind = Screen
    THEN Msg("Failed to start FFmpeg recording: ", << >>)
    ELSE Msg("Failed to start FFmpeg webcam recording: ", << >>)

VARIABLES
    state,        \* RECORDING_STATE: the RecordingState behind the mutex
    stateLock,    \* worker holding the RecordingState mutex, or NoThread
    process,      \* RECORDING_PROCESS: Option<Child>
    processLock,  \* worker holding the RECORDING_PROCESS mutex, or NoThread
    procs,        \* the operating system's view of each spawned child, with
                  \* the output file it was told to write
    nspawned,     \* children spawned so far
    now,          \* Instant::now(), in 500 ms units
    ncalls,       \* commands invoked so far
    pc,           \* per thread: position inside its handler
    call,         \* per thread: command and arguments of the current call
    child,        \* per thread: the Child the handler owns locally
    outPath,      \* per thread: stop_recording's local output_path
    errMsg,       \* per thread: stop_recording's local error_message
    stderrOut,    \* per thread: stop_recording's local stderr_output (step 4)
    meta,         \* per thread: what std::fs::metadata answered
    sleepLeft,    \* per thread: remaining thread::sleep time
    firstWait,    \* per thread: what stop_recording's first try_wait answered
    result,       \* per thread: value the finished call returned
    wrote,        \* per thread: the value the current call last wrote to state
    lastWrite,    \* command kind of the last write to state
    takes,        \* per child: how many times its handle was taken by a stop
    exPc,         \* export_video: position inside the call ("off": none made)
    exArgs,       \* export_video: the arguments of the call
    exFilter,     \* export_video: Option of the filter_complex that was built
    exRuns,       \* export_video: how often the engine was invoked
    exStatus,     \* export_video: Option of the exit status the engine returned
    exResult,     \* export_video: Option of the value the call returned
    camPc,        \* list_cameras: position inside the call ("off": none made)
    camStderr,    \* list_cameras: the lines the engine wrote to its error stream
    camResult,    \* list_cameras: Option of the value the call returned
    fmtPc,        \* time formatting: position ("off": none made)
    fmtMillis,    \* time formatting: the time to format, in whole milliseconds
    fmtSrt,       \* time formatting: Option of format_srt_time's string
    fmtVtt,       \* time formatting: Option of format_vtt_time's string
    jobPc,        \* transcribe_clip / generate_thumbnail: position ("off": none)
    jobArgs,      \* ... the command and its arguments
    jobEvents,    \* ... the progress events emitted so far, in order
    jobFile,      \* ... the temporary file: "none", "exists" or "removed"
    jobRemoves,   \* ... how often removal of the temporary file was attempted
    jobLocal,     \* ... the locals audio_path, whisper_response, buffer
    jobResult     \* ... Option of the value the call returned

exportVars == << exPc, exArgs, exFilter, exRuns, exStatus, exResult >>

cameraVars == << camPc, camStderr, camResult >>
formatVars == << fmtPc, fmtMillis, fmtSrt, fmtVtt >>
jobVars == << jobPc, jobArgs, jobEvents, jobFile, jobRemoves, jobLocal, jobResult >>

(* State of the commands that do not touch the capture session. *)
commandVars == << exportVars, cameraVars, formatVars, jobVars >>

recordingVars ==
    << state, stateLock, process, processLock, procs, nspawned, now, ncalls, pc, call,
       child, outPath, errMsg, stderrOut, meta, sleepLeft, firstWait, result, wrote,
       lastWrite, takes >>

vars == << recordingVars, commandVars >>

sessionVars == << state, process, processLock >>
osVars == << procs, nspawned >>
localVars == << child, outPath, errMsg, stderrOut, meta, sleepLeft, firstWait >>
ghostVars == << wrote, lastWrite, takes >>

(* RecordingState::default() *)
DefaultState ==
    [is_recording |-> FALSE,
     start_time |-> None,
     output_path |-> None,
     recording_type |-> Screen]

NoProc == [st |-> "none", quit |-> FALSE, killed |-> FALSE, path |-> ""]

NoCall == [op |-> "none", output_path |-> "", kind |-> Screen]

NoExport == [clips |-> << >>, resolution |-> "", fps |-> 0, composition_length |-> 0]

(* The capture session before any command ran. *)
RecordingInit ==
    /\ state = DefaultState
    /\ stateLock = NoThread
    /\ process = None
    /\ processLock = NoThread
    /\ procs = [p \in ProcIds |-> NoProc]
    /\ nspawned = 0
    /\ now = 0
    /\ ncalls = 0
    /\ pc = [t \in Threads |-> "idle"]
    /\ call = [t \in Threads |-> NoCall]
    /\ child = [t \in Threads |-> None]
    /\ outPath = [t \in Threads |-> None]
    /\ errMsg = [t \in Threads |-> None]
    /\ stderrOut = [t \in Threads |-> None]
    /\ meta = [t \in Threads |-> "none"]
    /\ sleepLeft = [t \in Threads |-> 0]
    /\ firstWait = [t \in Threads |-> "none"]
    /\ result = [t \in Threads |-> None]
    /\ wrote = [t \in Threads |-> None]
    /\ lastWrite = "none"
    /\ takes = [p \in ProcIds |-> 0]

(* No export_video call is made. *)
ExportOff ==
    /\ exPc = "off"
    /\ exArgs = NoExport
    /\ exFilter = None
    /\ exRuns = 0
    /\ exStatus = None
    /\ exResult = None

(* No list_cameras call is made. *)
CameraOff ==
    /\ camPc = "off"
    /\ camStderr = << >>
    /\ camResult = None

(* No time is formatted. *)
FormatOff ==
    /\ fmtPc = "off"
    /\ fmtMillis = 0
    /\ fmtSrt = None
    /\ fmtVtt = None

(* No transcribe_clip or generate_thumbnail call is made. *)
JobOff ==
    /\ jobPc = "off"
    /\ jobArgs = [op |-> "none"]
    /\ jobEvents = << >>
    /\ jobFile = "none"
    /\ jobRemoves = 0
    /\ jobLocal = [audio_path |-> None, whisper_response |-> None, buffer |-> None]
    /\ jobResult = None

(* Only the capture commands are invoked. *)
Init ==
    /\ RecordingInit
    /\ ExportOff
    /\ CameraOff
    /\ FormatOff
    /\ JobOff

(* ------------------------- pure helpers of the code ------------------- *)

(* The state guard is bound inside a `{ ... }` block and never leaves it. *)
StateLockKeptAfterBlock(t) == t

(* recording.rs 55-65, 87-94, 181-188, 253-258, 284-303: every             *)
(* `state.lock()` guard is bound inside a block (or, in the status         *)
(* command, a function body) that holds no spawn, sleep or wait, and is    *)
(* dropped at its end.                                                     *)
StateLockAfterBlock(t) == NoThread

(* The check removed: a start never sees a recording in progress. *)
AlreadyRecordingNever(st) == FALSE

(* `if state_guard.is_recording { return Err(..) }` of both start commands *)
AlreadyRecording(st) == st.is_recording

(* The check removed: a stop always believes a recording is in progress. *)
NotRecordingNever(st) == FALSE

(* `if !state_guard.is_recording { return Err(..) }` of stop_recording *)
NotRecording(st) == ~st.is_recording

(* The start sets the flag and forgets the instant. *)
StartedStateWithoutInstant(st, path, kind, instant) ==
    [is_recording |-> TRUE,
     start_time |-> st.start_time,
     output_path |-> Some(path),
     recording_type |-> kind]

(* The "Update state" block of a start command. *)
StartedState(st, path, kind, instant) ==
    [is_recording |-> TRUE,
     start_time |-> Some(instant),
     output_path |-> Some(path),
     recording_type |-> kind]

(* The stop forgets to clear start_time. *)
StoppedStateKeepsStartTime(st) == [st EXCEPT !.is_recording = FALSE]

(* The "Update state" block of stop_recording. *)
StoppedState(st) ==
    [st EXCEPT !.is_recording = FALSE, !.start_time = None]

(* start.elapsed(): the clock saturates at MaxTime, so it never runs back. *)
Elapsed(start, instant) == IF instant >= start THEN instant - start ELSE 0

(* The JSON value get_recording_status builds. *)
StatusJson(st, instant) ==
    [isRecording |-> st.is_recording,
     elapsed |-> IF IsSome(st.start_time)
                 THEN Elapsed(Unwrap(st.start_time), instant)
                 ELSE 0,
     outputPath |-> st.output_path,
     recordingType |-> st.recording_type]

(* The slot is read without being emptied. *)
TakeProcessKeeps(slot) == << slot, slot >>

(* Option::take on the RECORDING_PROCESS slot: <<what the caller gets, what stays>> *)
TakeProcess(slot) == << slot, None >>

(* The text becomes a diagnostic whatever the exit status was. *)
ExitedDiagnosticIgnoresStatus(status, text) ==
    IF ~IsEmpty(text)
    THEN Some(ExitedWithErrorMsg(text))
    ELSE None

(* Diagnostic derived from the error stream of a process that was already *)
(* gone when stop_recording looked at it.                                  *)
ExitedDiagnostic(status, text) ==
    IF status # "exit0" /\ ~IsEmpty(text)
    THEN Some(ExitedWithErrorMsg(text))
    ELSE None

(* Diagnostic derived from the error stream of a process stop_recording   *)
(* had to shut down ("Check for common errors").                          *)
ShutdownDiagnostic(text) ==
    IF ~IsEmpty(text)
    THEN IF Contains(text, <<"Permission", "denied">>)
            \/ Contains(text, <<"No", "permission">>)
         THEN Some(PermissionDeniedMsg)
         ELSE IF Contains(text, <<"Device", "not", "found">>)
                 \/ Contains(text, <<"No", "such", "device">>)
              THEN Some(CameraNotFoundMsg)
              ELSE None
    ELSE None

(* Failure message of start_webcam_recording when the child exited at once. *)
StartupFailure(status, text) ==
    IF ~IsEmpty(text)
    THEN ExitedImmediatelyMsg(text)
    ELSE ExitedImmediatelyStatusMsg(status)

(* A captured diagnostic fails the call even though the file is fine. *)
ValidateOutputFailsOnDiagnostic(out, m, err) ==
    IF ~IsSome(out)
    THEN Err(NoOutputPathMsg)
    ELSE IF IsSome(err)
         THEN Err(Unwrap(err))
         ELSE IF m = "nonempty"
              THEN Ok(out)
              ELSE IF m = "empty"
                   THEN Err(EmptyFileMsg)
                   ELSE Err(FileNotFoundMsg(Unwrap(out)))

(* The tail of stop_recording: output_path.ok_or(..)?, the metadata check, *)
(* and the returned value.  m is what std::fs::metadata found.             *)
ValidateOutput(out, m, err) ==
    IF ~IsSome(out)
    THEN Err(NoOutputPathMsg)
    ELSE IF m = "nonempty"
         THEN Ok(out)
         ELSE IF IsSome(err)
              THEN Err(Unwrap(err))
              ELSE IF m = "empty"
                   THEN Err(EmptyFileMsg)
                   ELSE Err(FileNotFoundMsg(Unwrap(out)))

(* Milliseconds of thread::sleep in clock units. *)
SleepTicks(ms) == ms \div 500

(* The stop waits only as long as the webcam start does. *)
StopGraceTicksHalved == SleepTicks(WebcamStartGraceMs)

(* recording.rs 220: std::thread::sleep(Duration::from_millis(1000)), the *)
(* same for every recording_type.                                         *)
StopGraceTicks == SleepTicks(StopGraceMs)

(* Child::try_wait as the operating system may answer it. *)
TryWaitOutcomes(p) ==
    IF procs[p].st = "running" THEN { "running", "error" } ELSE { "exited", "error" }

(* A successful wait/try_wait reaps the child: the system forgets it. *)
Reaped(p) == [procs EXCEPT ![p] = [NoProc EXCEPT !.st = "reaped"]]

(* ------------------------------ actions ------------------------------- *)

(* The command returns r; its locals go out of scope. *)
Return(t, r) ==
    /\ pc' = [pc EXCEPT ![t] = "done"]
    /\ result' = [result EXCEPT ![t] = Some(r)]

Goto(t, label) ==
    /\ pc' = [pc EXCEPT ![t] = label]
    /\ result' = [result EXCEPT ![t] = None]

(* A free worker picks up a command the UI invoked. *)
Begin(t, op, path, kind) ==
    /\ pc[t] \in { "idle", "done" }
    /\ ncalls < MaxCalls
    /\ ncalls' = ncalls + 1
    /\ call' = [call EXCEPT ![t] = [op |-> op, output_path |-> path, kind |-> kind]]
    /\ wrote' = [wrote EXCEPT ![t] = None]
    /\ meta' = [meta EXCEPT ![t] = "none"]
    /\ errMsg' = [errMsg EXCEPT ![t] = None]
    /\ firstWait' = [firstWait EXCEPT ![t] = "none"]

(* recording.rs 51-67 / 101-116: a start command is invoked and runs its  *)
(* "already recording" check.                                             *)
StartCheck(t) ==
    /\ stateLock = NoThread
    /\ stateLock' = StateLockAfterBlock(t)
    /\ \E path \in Paths, kind \in Kinds :
          Begin(t, IF kind = Screen THEN "start_screen" ELSE "start_webcam", path, kind)
    /\ IF AlreadyRecording(state)
       THEN Return(t, Err(AlreadyRecordingMsg))
       ELSE Goto(t, "start_spawn")
    /\ outPath' = [outPath EXCEPT ![t] = None]
    /\ UNCHANGED << commandVars,
                    sessionVars, osVars, now, child, stderrOut, sleepLeft, lastWrite,
                    takes >>

(* recording.rs 69-79 / 118-127: FFmpegExecutor::new()? fails. *)
StartNoBinaries(t) ==
    /\ pc[t] = "start_spawn"
    /\ Return(t, Err(BinariesNotFoundMsg))
    /\ UNCHANGED << stateLock, commandVars,
                    sessionVars, osVars, now, ncalls, call, localVars, ghostVars >>

(* ffmpeg.rs 438-439 / 493-494: cmd.spawn() fails. *)
StartSpawnFails(t) ==
    /\ pc[t] = "start_spawn"
    /\ Return(t, Err(SpawnFailedMsg(call[t].kind)))
    /\ UNCHANGED << stateLock, commandVars,
                    sessionVars, osVars, now, ncalls, call, localVars, ghostVars >>

(* ffmpeg.rs 432-441 / 487-496: the child is spawned with piped streams;  *)
(* the webcam command then starts its 500 ms sleep.                       *)
StartSpawn(t) ==
    /\ pc[t] = "start_spawn"
    /\ nspawned < MaxProcs
    /\ nspawned' = nspawned + 1
    /\ procs' = [procs EXCEPT ![nspawned + 1] =
                     [NoProc EXCEPT !.st = "running", !.path = call[t].output_path]]
    /\ child' = [child EXCEPT ![t] = Some(nspawned + 1)]
    /\ IF call[t].op = "start_webcam"
       THEN /\ Goto(t, "start_sleep")
            /\ sleepLeft' = [sleepLeft EXCEPT ![t] = SleepTicks(WebcamStartGraceMs)]
       ELSE /\ Goto(t, "start_store")
            /\ UNCHANGED sleepLeft
    /\ UNCHANGED << stateLock, commandVars,
                    sessionVars, now, ncalls, call, outPath, errMsg, stderrOut, firstWait, meta,
                    ghostVars >>

(* The exit is only logged: the dead child is kept and stored. *)
StartProbeIgnoresExit(t) ==
    /\ pc[t] = "start_sleep"
    /\ sleepLeft[t] = 0
    /\ LET p == Unwrap(child[t]) IN
       \E r \in TryWaitOutcomes(p) :
          /\ procs' = IF r = "exited" THEN Reaped(p) ELSE procs
          /\ Goto(t, "start_store")
          /\ UNCHANGED child
    /\ UNCHANGED << stateLock, commandVars,
                    sessionVars, nspawned, now, ncalls, call, outPath, errMsg,
                    stderrOut, firstWait, meta, sleepLeft, ghostVars >>

(* recording.rs 130-156: the sleep is over; child.try_wait() decides      *)
(* whether the camera process survived its start.  An exited child is     *)
(* reaped and its error stream read for the failure message.              *)
StartProbe(t) ==
    /\ pc[t] = "start_sleep"
    /\ sleepLeft[t] = 0
    /\ LET p == Unwrap(child[t]) IN
       \E r \in TryWaitOutcomes(p) :
          IF r = "exited"
          THEN /\ procs' = Reaped(p)
               /\ child' = [child EXCEPT ![t] = None]
               /\ \E status \in ExitStatuses, text \in StderrTexts :
                     Return(t, Err(StartupFailure(status, text)))
          ELSE /\ Goto(t, "start_store")
               /\ UNCHANGED << procs, child >>
    /\ UNCHANGED << stateLock, commandVars,
                    sessionVars, nspawned, now, ncalls, call, outPath, errMsg,
                    stderrOut, firstWait, meta, sleepLeft, ghostVars >>

(* recording.rs 81-85 / 158-162: "Store process handle".  The handle that *)
(* was in the slot is dropped; dropping a Child neither kills nor reaps.  *)
StartStore(t) ==
    /\ pc[t] = "start_store"
    /\ processLock = NoThread
    /\ process' = child[t]
    /\ child' = [child EXCEPT ![t] = None]
    /\ Goto(t, "start_update")
    /\ UNCHANGED << stateLock, commandVars,
                    state, processLock, osVars, now, ncalls, call, outPath, errMsg,
                    stderrOut, firstWait, meta, sleepLeft, ghostVars >>

(* recording.rs 87-96 / 164-173: "Update state", then Ok(()). *)
StartUpdate(t) ==
    /\ pc[t] = "start_update"
    /\ stateLock = NoThread
    /\ stateLock' = StateLockAfterBlock(t)
    /\ state' = StartedState(state, call[t].output_path, call[t].kind, now)
    /\ lastWrite' = "start"
    /\ Return(t, Ok(<< >>))
    /\ UNCHANGED << commandVars,
                    process, processLock, osVars, now, ncalls, call, localVars, wrote,
                    takes >>

(* recording.rs 178-188: stop_recording is invoked and runs its "not      *)
(* recording" check; output_path is cloned.                               *)
StopCheck(t) ==
    /\ stateLock = NoThread
    /\ stateLock' = StateLockAfterBlock(t)
    /\ Begin(t, "stop", "", Screen)
    /\ IF NotRecording(state)
       THEN /\ Return(t, Err(NotRecordingMsg))
            /\ outPath' = [outPath EXCEPT ![t] = None]
       ELSE /\ outPath' = [outPath EXCEPT ![t] = state.output_path]
            /\ Goto(t, "stop_take")
    /\ UNCHANGED << commandVars,
                    sessionVars, osVars, now, child, stderrOut, sleepLeft, lastWrite,
                    takes >>

(* An early return when the slot is empty: the state update is skipped. *)
StopTakeEarlyReturn(t) ==
    /\ pc[t] = "stop_take"
    /\ processLock = NoThread
    /\ LET tk == TakeProcess(process) IN
          /\ process' = tk[2]
          /\ IF IsSome(tk[1])
             THEN /\ child' = [child EXCEPT ![t] = tk[1]]
                  /\ takes' = [takes EXCEPT ![Unwrap(tk[1])] = @ + 1]
                  /\ Goto(t, "stop_trywait")
                  /\ processLock' = t
                  /\ UNCHANGED errMsg
             ELSE /\ errMsg' = [errMsg EXCEPT ![t] = Some(ProcessNotFoundMsg)]
                  /\ Return(t, Err(ProcessNotFoundMsg))
                  /\ processLock' = NoThread
                  /\ UNCHANGED << child, takes >>
    /\ UNCHANGED << stateLock, commandVars,
                    state, osVars, now, ncalls, call, outPath, stderrOut, firstWait, meta,
                    sleepLeft, wrote, lastWrite >>

(* recording.rs 191-194, 249-251: lock RECORDING_PROCESS (held until the  *)
(* function returns) and take the handle out of it.                       *)
StopTake(t) ==
    /\ pc[t] = "stop_take"
    /\ processLock = NoThread
    /\ processLock' = t
    /\ LET tk == TakeProcess(process) IN
          /\ process' = tk[2]
          /\ IF IsSome(tk[1])
             THEN /\ child' = [child EXCEPT ![t] = tk[1]]
                  /\ takes' = [takes EXCEPT ![Unwrap(tk[1])] = @ + 1]
                  /\ Goto(t, "stop_trywait")
                  /\ UNCHANGED errMsg
             ELSE /\ errMsg' = [errMsg EXCEPT ![t] = Some(ProcessNotFoundMsg)]
                  /\ Goto(t, "stop_update")
                  /\ UNCHANGED << child, takes >>
    /\ UNCHANGED << stateLock, commandVars,
                    state, osVars, now, ncalls, call, outPath, stderrOut, firstWait, meta,
                    sleepLeft, wrote, lastWrite >>

(* recording.rs 196-220, 245-247: the first child.try_wait().             *)
(*  - exited: the child is reaped; a failed exit has its error stream     *)
(*    read for the diagnostic; the handle goes out of scope.              *)
(*  - running: b"q" is written to stdin and flushed, and the 1000 ms      *)
(*    grace sleep starts.                                                 *)
(*  - error: the handle goes out of scope, nothing else happens.          *)
StopTryWait(t) ==
    /\ pc[t] = "stop_trywait"
    /\ LET p == Unwrap(child[t]) IN
       \E r \in TryWaitOutcomes(p) :
          CASE r = "exited" ->
                 /\ procs' = Reaped(p)
                 /\ \E status \in ExitStatuses, text \in StderrTexts :
                       /\ firstWait' = [firstWait EXCEPT ![t] = status]
                       /\ errMsg' = [errMsg EXCEPT ![t] = ExitedDiagnostic(status, text)]
                 /\ child' = [child EXCEPT ![t] = None]
                 /\ Goto(t, "stop_update")
                 /\ UNCHANGED sleepLeft
            [] r = "running" ->
                 /\ firstWait' = [firstWait EXCEPT ![t] = "running"]
                 /\ procs' = [procs EXCEPT ![p].quit = TRUE]
                 /\ sleepLeft' = [sleepLeft EXCEPT ![t] = StopGraceTicks]
                 /\ Goto(t, "stop_sleep")
                 /\ UNCHANGED << errMsg, child >>
            [] OTHER ->
                 /\ firstWait' = [firstWait EXCEPT ![t] = "error"]
                 /\ child' = [child EXCEPT ![t] = None]
                 /\ Goto(t, "stop_update")
                 /\ UNCHANGED << procs, errMsg, sleepLeft >>
    /\ UNCHANGED << stateLock, commandVars,
                    sessionVars, nspawned, now, ncalls, call, outPath, stderrOut, meta,
                    ghostVars >>

(* The kill is sent without asking whether the child is still alive. *)
StopRecheckKillsAlways(t) ==
    /\ pc[t] = "stop_sleep"
    /\ sleepLeft[t] = 0
    /\ procs' = [procs EXCEPT ![Unwrap(child[t])].killed = TRUE]
    /\ Goto(t, "stop_drain")
    /\ UNCHANGED << stateLock, commandVars,
                    sessionVars, nspawned, now, ncalls, call, localVars, ghostVars >>

(* recording.rs 220-225: the sleep is over;                               *)
(* `if let Ok(None) = child.try_wait() { let _ = child.kill(); }`         *)
StopRecheck(t) ==
    /\ pc[t] = "stop_sleep"
    /\ sleepLeft[t] = 0
    /\ LET p == Unwrap(child[t]) IN
       \E r \in TryWaitOutcomes(p) :
          procs' = CASE r = "running" -> [procs EXCEPT ![p].killed = TRUE]
                     [] r = "exited" -> Reaped(p)
                     [] OTHER -> procs
    /\ Goto(t, "stop_drain")
    /\ UNCHANGED << stateLock, commandVars,
                    sessionVars, nspawned, now, ncalls, call, localVars, ghostVars >>

(* recording.rs 227-241: read the error stream to its end (the read       *)
(* returns once the child has closed it) and classify the text.           *)
StopDrain(t) ==
    /\ pc[t] = "stop_drain"
    /\ procs[Unwrap(child[t])].st \in { "exited", "reaped" }
    /\ \E text \in StderrTexts :
          /\ stderrOut' = [stderrOut EXCEPT ![t] = Some(text)]
          /\ errMsg' = [errMsg EXCEPT ![t] = ShutdownDiagnostic(text)]
    /\ Goto(t, "stop_wait")
    /\ UNCHANGED << stateLock, commandVars,
                    sessionVars, osVars, now, ncalls, call, child, outPath, meta, firstWait,
                    sleepLeft, ghostVars >>

(* recording.rs 241-244: stderr_output goes out of scope; child.wait(),   *)
(* then the handle goes out of scope.                                     *)
StopWait(t) ==
    /\ pc[t] = "stop_wait"
    /\ LET p == Unwrap(child[t]) IN
          /\ procs[p].st \in { "exited", "reaped" }
          /\ procs' = Reaped(p)
    /\ child' = [child EXCEPT ![t] = None]
    /\ stderrOut' = [stderrOut EXCEPT ![t] = None]
    /\ Goto(t, "stop_update")
    /\ UNCHANGED << stateLock, commandVars,
                    sessionVars, nspawned, now, ncalls, call, outPath, errMsg, meta, firstWait,
                    sleepLeft, ghostVars >>

(* recording.rs 253-258: "Update state". *)
StopUpdate(t) ==
    /\ pc[t] = "stop_update"
    /\ stateLock = NoThread
    /\ stateLock' = StateLockAfterBlock(t)
    /\ state' = StoppedState(state)
    /\ wrote' = [wrote EXCEPT ![t] = Some(state')]
    /\ lastWrite' = "stop"
    /\ Goto(t, "stop_validate")
    /\ UNCHANGED << commandVars,
                    process, processLock, osVars, now, ncalls, call, localVars, takes >>

(* recording.rs 260-279: the output-file check and the return value; the  *)
(* RECORDING_PROCESS guard is dropped as the function returns.  outPath,  *)
(* errMsg and meta keep what the call saw until the worker is reused.     *)
StopValidate(t) ==
    /\ pc[t] = "stop_validate"
    /\ \E m \in { "missing", "empty", "nonempty" } :
          /\ meta' = [meta EXCEPT ![t] = IF IsSome(outPath[t]) THEN m ELSE "none"]
          /\ Return(t, ValidateOutput(outPath[t], m, errMsg[t]))
    /\ processLock' = NoThread
    /\ UNCHANGED << stateLock, commandVars,
                    state, process, osVars, now, ncalls, call, child, outPath, errMsg,
                    stderrOut, firstWait, sleepLeft, ghostVars >>

(* recording.rs 283-304: get_recording_status, invoked and answered. *)
StatusRead(t) ==
    /\ stateLock = NoThread
    /\ stateLock' = StateLockAfterBlock(t)
    /\ Begin(t, "status", "", Screen)
    /\ Return(t, [tag |-> "Ok", json |-> StatusJson(state, now)])
    /\ outPath' = [outPath EXCEPT ![t] = None]
    /\ UNCHANGED << commandVars,
                    sessionVars, osVars, now, child, stderrOut, sleepLeft, lastWrite,
                    takes >>

(* ---------------------------- environment ----------------------------- *)

(* Some handle to child p still exists. *)
HasHandle(p) == process = Some(p) \/ \E t \in Threads : child[t] = Some(p)

(* A capture process ends: on the quit byte, on SIGKILL, or on its own    *)
(* (device failure, permission refusal, ...).  Its streams are closed.    *)
ProcExit(p) ==
    /\ procs[p].st = "running"
    /\ procs' = [procs EXCEPT ![p] =
                     [NoProc EXCEPT !.st = "exited", !.path = procs[p].path]]
    /\ UNCHANGED << stateLock, commandVars,
                    sessionVars, nspawned, now, ncalls, pc, call, localVars, result,
                    ghostVars >>

(* 500 ms pass. *)
Tick ==
    /\ now < MaxTime \/ \E t \in Threads : sleepLeft[t] > 0
    /\ now' = IF now < MaxTime THEN now + 1 ELSE now
    /\ sleepLeft' = [t \in Threads |-> IF sleepLeft[t] > 0 THEN sleepLeft[t] - 1 ELSE 0]
    /\ UNCHANGED << stateLock, commandVars,
                    sessionVars, osVars, ncalls, pc, call, child, outPath, errMsg,
                    stderrOut, firstWait, meta, result, ghostVars >>

Next ==
    \/ \E t \in Threads :
          \/ StartCheck(t)
          \/ StartNoBinaries(t)
          \/ StartSpawnFails(t)
          \/ StartSpawn(t)
          \/ StartProbe(t)
          \/ StartStore(t)
          \/ StartUpdate(t)
          \/ StopCheck(t)
          \/ StopTake(t)
          \/ StopTryWait(t)
          \/ StopRecheck(t)
          \/ StopDrain(t)
          \/ StopWait(t)
          \/ StopUpdate(t)
          \/ StopValidate(t)
          \/ StatusRead(t)
    \/ \E p \in ProcIds : ProcExit(p)
    \/ Tick

Spec == Init /\ [][Next]_vars

(* Scheduling the runtime and the operating system guarantee to a stop    *)
(* in progress: the clock advances, the handler's own steps are taken     *)
(* when they can be, and a child that was sent SIGKILL exits.             *)
StopFairness ==
    /\ WF_vars(Tick)
    /\ \A t \in Threads :
          /\ WF_vars(StopTake(t))
          /\ WF_vars(StopTryWait(t))
          /\ WF_vars(StopRecheck(t))
          /\ WF_vars(StopDrain(t))
          /\ WF_vars(StopWait(t))
          /\ WF_vars(StopUpdate(t))
          /\ WF_vars(StopValidate(t))
    /\ \A p \in ProcIds : WF_vars(procs[p].killed /\ ProcExit(p))

LiveSpec == Spec /\ StopFairness

(* ----------------- export_video and its compositor -------------------- *)
(* ffmpeg.rs 238-373.  Times are f64 seconds in the code and whole        *)
(* seconds here, so sums and differences are exact.                       *)

MaxClips == 2        \* clips in one export
MaxStart == 3        \* largest timeline offset of a clip
MaxDuration == 2     \* largest play duration of a clip
MaxLength == 5       \* largest composition_length

(* ffmpeg.rs 22-33: ClipInfo values the UI may pass. *)
ClipInfos ==
    { [file_path |-> "v.mp4", start_time |-> s, duration |-> d,
       trim_start |-> 0, trim_end |-> d] : s \in 0..MaxStart, d \in 1..MaxDuration }

ClipLists == UNION { [1..n -> ClipInfos] : n \in 0..MaxClips }

Resolutions == { "720p", "1080p", "source", "4k" }
FrameRates == { 30 }

NoClipsMsg == Msg("No clips to export", << >>)
InvalidResolutionMsg(resolution) == Msg("Invalid resolution: ", << resolution >>)
ExecutionFailedMsg == Msg("FFmpeg execution failed: ", << >>)
ExportFailedMsg == Msg("Video export failed: ", << "stderr" >>)

(* The empty-list check removed. *)
NoClipsNever(clips) == FALSE

(* ffmpeg.rs 246: clips.is_empty() *)
NoClips(clips) == Len(clips) = 0

(* An unknown name falls back to the source size. *)
ScaleForDefaultsToSource(resolution) ==
    CASE resolution = "720p" -> Some("1280:720")
      [] resolution = "1080p" -> Some("1920:1080")
      [] OTHER -> Some("-1:-1")

(* ffmpeg.rs 303-308: the scale of a resolution name; None stands for the *)
(* `_ => return Err(...)` arm.                                            *)
ScaleFor(resolution) ==
    CASE resolution = "720p" -> Some("1280:720")
      [] resolution = "1080p" -> Some("1920:1080")
      [] resolution = "source" -> Some("-1:-1")
      [] OTHER -> None

(* format!("[gap{}]", i) / format!("[clip{}]", i): the name and the       *)
(* decimal index are kept apart.                                          *)
Label(name, i) == << name, i >>

(* ffmpeg.rs 320-327, 352-359: a black source of the gap's length. *)
GapFilter(gap_duration, fps, scale, label) ==
    [op |-> "color", s |-> "1920x1080", d |-> gap_duration, r |-> fps,
     scale |-> scale, out |-> label]

(* ffmpeg.rs 333-340: trim, timestamp reset and scale of input i. *)
ClipFilter(i, clip, scale, label) ==
    [op |-> "trim", input |-> i, start |-> clip.trim_start,
     duration |-> clip.duration, scale |-> scale, out |-> label]

(* The count is one more than the labels listed. *)
ConcatFilterOffByOne(video_indices) ==
    [op |-> "concat", inputs |-> video_indices, n |-> Len(video_indices) + 1]

(* ffmpeg.rs 364-370: concat of every label pushed, in push order. *)
ConcatFilter(video_indices) ==
    [op |-> "concat", inputs |-> video_indices, n |-> Len(video_indices)]

(* The cursor is not subtracted. *)
GapDurationFromZero(start_time, current_time) == start_time

(* ffmpeg.rs 319: clip.start_time - current_time *)
GapDuration(start_time, current_time) == start_time - current_time

(* A gap is also added when nothing is left to fill. *)
NeedsTrailingGapAlsoWhenEqual(current_time, composition_length) ==
    current_time <= composition_length

(* ffmpeg.rs 348: current_time < composition_length *)
NeedsTrailingGap(current_time, composition_length) == current_time < composition_length

(* ffmpeg.rs 349: composition_length - current_time *)
TrailingGapDuration(current_time, composition_length) ==
    composition_length - current_time

(* The trailing gap reuses the last clip's index. *)
TrailingGapIndexOfLastClip(clips) == Len(clips) - 1

(* ffmpeg.rs 350: clips.len() *)
TrailingGapIndex(clips) == Len(clips)

(* ffmpeg.rs 310-312: the accumulators before the loop. *)
EmptyPlan == [filters |-> << >>, video_indices |-> << >>, current_time |-> 0]

(* Vec::push of one filter and its label. *)
Push(plan, filter) ==
    [plan EXCEPT !.filters = Append(@, filter),
                 !.video_indices = Append(@, filter.out)]

(* A gap is emitted whenever the clip does not start at the cursor, also  *)
(* when it starts before it.                                              *)
ClipStepGapWhenDifferent(plan, i, clip, fps, scale) ==
    LET gapped ==
            IF clip.start_time # plan.current_time
            THEN Push(plan, GapFilter(GapDuration(clip.start_time, plan.current_time),
                                      fps, scale, Label("gap", i)))
            ELSE plan
    IN  [Push(gapped, ClipFilter(i, clip, scale, Label("clip", i)))
            EXCEPT !.current_time = clip.start_time + clip.duration]

(* ffmpeg.rs 315-345: one iteration of the loop, for the clip at 0-based  *)
(* index i.                                                               *)
ClipStep(plan, i, clip, fps, scale) ==
    LET gapped ==
            IF clip.start_time > plan.current_time
            THEN Push(plan, GapFilter(GapDuration(clip.start_time, plan.current_time),
                                      fps, scale, Label("gap", i)))
            ELSE plan
    IN  [Push(gapped, ClipFilter(i, clip, scale, Label("clip", i)))
            EXCEPT !.current_time = clip.start_time + clip.duration]

(* ffmpeg.rs 315: the loop over the first n clips. *)
RECURSIVE ClipLoop(_, _, _, _)
ClipLoop(clips, n, fps, scale) ==
    IF n = 0
    THEN EmptyPlan
    ELSE ClipStep(ClipLoop(clips, n - 1, fps, scale), n - 1, clips[n], fps, scale)

(* ffmpeg.rs 347-361: the gap that fills up to composition_length. *)
WithTrailingGap(plan, clips, fps, scale, composition_length) ==
    IF NeedsTrailingGap(plan.current_time, composition_length)
    THEN Push(plan, GapFilter(TrailingGapDuration(plan.current_time, composition_length),
                              fps, scale, Label("gap", TrailingGapIndex(clips))))
    ELSE plan

(* ffmpeg.rs 296-373: build_filter_complex.  The joined string is kept as *)
(* the sequence of its ";"-separated filters.                             *)
BuildFilterComplex(clips, resolution, fps, composition_length) ==
    LET sc == ScaleFor(resolution) IN
    IF ~IsSome(sc)
    THEN Err(InvalidResolutionMsg(resolution))
    ELSE LET plan == WithTrailingGap(ClipLoop(clips, Len(clips), fps, Unwrap(sc)),
                                     clips, fps, Unwrap(sc), composition_length)
         IN  Ok(Append(plan.filters, ConcatFilter(plan.video_indices)))

(* ExitStatus::success() *)
Success(status) == status = "exit0"

(* The exit status is not looked at. *)
ExportOutcomeIgnoresStatus(status) == Ok(<< >>)

(* ffmpeg.rs 287-292: the value returned once the engine has run. *)
ExportOutcome(status) == IF Success(status) THEN Ok(<< >>) ELSE Err(ExportFailedMsg)

exportLocals == << exArgs, exFilter, exRuns, exStatus >>

(* ffmpeg.rs 246-248: the empty-list check. *)
ExportCheck ==
    /\ exPc = "start"
    /\ IF NoClips(exArgs.clips)
       THEN /\ exPc' = "done"
            /\ exResult' = Some(Err(NoClipsMsg))
       ELSE /\ exPc' = "build"
            /\ UNCHANGED exResult
    /\ UNCHANGED << exportLocals, recordingVars, cameraVars, formatVars, jobVars >>

(* ffmpeg.rs 251: build_filter_complex(...)? *)
ExportBuild ==
    /\ exPc = "build"
    /\ LET r == BuildFilterComplex(exArgs.clips, exArgs.resolution, exArgs.fps,
                                   exArgs.composition_length)
       IN  IF r.tag = "Err"
           THEN /\ exPc' = "done"
                /\ exResult' = Some(r)
                /\ UNCHANGED exFilter
           ELSE /\ exPc' = "run"
                /\ exFilter' = Some(r.val)
                /\ UNCHANGED exResult
    /\ UNCHANGED << exArgs, exRuns, exStatus, recordingVars, cameraVars, formatVars, jobVars >>

(* ffmpeg.rs 282-285: Command::output() cannot start the engine. *)
ExportSpawnFails ==
    /\ exPc = "run"
    /\ exRuns' = exRuns + 1
    /\ exResult' = Some(Err(ExecutionFailedMsg))
    /\ exPc' = "done"
    /\ UNCHANGED << exArgs, exFilter, exStatus, recordingVars, cameraVars, formatVars, jobVars >>

(* ffmpeg.rs 282-292: the engine runs to its end and its status decides. *)
ExportRun ==
    /\ exPc = "run"
    /\ exRuns' = exRuns + 1
    /\ \E status \in ExitStatuses :
          /\ exStatus' = Some(status)
          /\ exResult' = Some(ExportOutcome(status))
    /\ exPc' = "done"
    /\ UNCHANGED << exArgs, exFilter, recordingVars, cameraVars, formatVars, jobVars >>

(* One export_video call with arguments the UI may pass. *)
ExportInit ==
    /\ RecordingInit
    /\ exPc = "start"
    /\ exArgs \in [clips : ClipLists, resolution : Resolutions, fps : FrameRates,
                   composition_length : 0..MaxLength]
    /\ exFilter = None
    /\ exRuns = 0
    /\ exStatus = None
    /\ exResult = None
    /\ CameraOff
    /\ FormatOff
    /\ JobOff

ExportNext ==
    \/ ExportCheck
    \/ ExportBuild
    \/ ExportSpawnFails
    \/ ExportRun

ExportSpec == ExportInit /\ [][ExportNext]_vars

(* ------------------------- list_cameras ------------------------------- *)

(* A line of the engine's device list is a sequence of tokens; blanks are *)
(* tokens of their own so that trim, rfind and find see them.             *)
MaxLines == 4

Blank == " "
Indev == <<"[", "AVFoundation", Blank, "indev", Blank, "@", Blank, "0x1", "]">>

VideoHeaderLine ==
    Indev \o <<Blank, "AVFoundation", Blank, "video", Blank, "devices", ":">>
AudioHeaderLine ==
    Indev \o <<Blank, "AVFoundation", Blank, "audio", Blank, "devices", ":">>
ScreenLine ==
    Indev \o <<Blank, "[", "1", "]", Blank, "Capture", Blank, "screen", Blank, "0">>
CameraLine ==
    Indev \o <<Blank, "[", "0", "]", Blank, "Built-in", Blank, "Camera">>
IndentedCameraLine ==
    <<Blank>> \o Indev \o <<Blank, "[", "1", "]", Blank, Blank, "USB", Blank>>
BareCameraLine == <<"[", "0", "]", Blank, "Built-in", Blank, "Camera">>
NamelessLine == Indev \o <<Blank, "[", "0", "]", Blank>>
BadIndexLine == Indev \o <<Blank, "[", "x", "]", Blank, "Camera">>
HugeIndexLine == Indev \o <<Blank, "[", "4294967296", "]", Blank, "Camera">>

DeviceListLines ==
    { VideoHeaderLine, AudioHeaderLine, ScreenLine, CameraLine, IndentedCameraLine,
      BareCameraLine, NamelessLine, BadIndexLine, HugeIndexLine }

DeviceLists == UNION { [1..n -> DeviceListLines] : n \in 0..MaxLines }

FailedToExecuteMsg == Msg("Failed to execute FFmpeg: ", << >>)

(* str::trim: blanks at both ends are dropped. *)
RECURSIVE TrimStart(_)
TrimStart(text) ==
    IF Len(text) > 0 /\ Head(text) = Blank THEN TrimStart(Tail(text)) ELSE text

RECURSIVE TrimEnd(_)
TrimEnd(text) ==
    IF Len(text) > 0 /\ text[Len(text)] = Blank
    THEN TrimEnd(SubSeq(text, 1, Len(text) - 1))
    ELSE text

Trim(text) == TrimEnd(TrimStart(text))

(* The positions at which pat occurs in text. *)
Occurrences(text, pat) ==
    { i \in 1..Len(text) :
        /\ i + Len(pat) - 1 <= Len(text)
        /\ SubSeq(text, i, i + Len(pat) - 1) = pat }

(* str::find / str::rfind: Option of the first / last position. *)
Find(text, pat) ==
    LET occ == Occurrences(text, pat)
    IN  IF occ = {} THEN None
        ELSE Some(CHOOSE i \in occ : \A j \in occ : i <= j)

RFind(text, pat) ==
    LET occ == Occurrences(text, pat)
    IN  IF occ = {} THEN None
        ELSE Some(CHOOSE i \in occ : \A j \in occ : i >= j)

(* str::parse::<u32>: only a decimal number below 2^32 parses. *)
U32Tokens == { "0", "1" }

ParseU32(text) ==
    IF Len(text) = 1 /\ text[1] \in U32Tokens
    THEN Ok(IF text[1] = "0" THEN 0 ELSE 1)
    ELSE Err("invalid")

CameraInfo(index, name) == [index |-> index, name |-> name]

(* What one line of the video section adds to the list: the part after  *)
(* the last "] [" is "<index>]<name>".                                    *)
DeviceEntry(line) ==
    LET trimmed == Trim(line)
        device_start == RFind(trimmed, <<"]", Blank, "[">>)
    IN  IF ~IsSome(device_start) THEN << >>
        ELSE LET device_part ==
                     SubSeq(trimmed, Unwrap(device_start) + 3, Len(trimmed))
                 bracket_end == Find(device_part, <<"]">>)
             IN  IF ~IsSome(bracket_end) THEN << >>
                 ELSE LET index ==
                              ParseU32(SubSeq(device_part, 1, Unwrap(bracket_end) - 1))
                          name ==
                              Trim(SubSeq(device_part, Unwrap(bracket_end) + 1,
                                          Len(device_part)))
                      IN  IF index.tag = "Ok" /\ ~IsEmpty(name)
                          THEN << CameraInfo(index.val, name) >>
                          ELSE << >>

IsVideoHeader(line) == Contains(line, <<"AVFoundation", Blank, "video", Blank, "devices">>)
IsAudioHeader(line) == Contains(line, <<"AVFoundation", Blank, "audio", Blank, "devices">>)
IsScreenCaptureNever(line) == FALSE

IsScreenCapture(line) == Contains(line, <<"Capture", Blank, "screen">>)

(* The loop over the lines: i is the next line, in_video_devices the    *)
(* flag, cameras the list so far; the audio header ends the loop.        *)
RECURSIVE ParseDeviceList(_, _, _, _)
ParseDeviceList(lines, i, in_video_devices, cameras) ==
    IF i > Len(lines) THEN cameras
    ELSE IF IsVideoHeader(lines[i]) THEN ParseDeviceList(lines, i + 1, TRUE, cameras)
    ELSE IF IsAudioHeader(lines[i]) THEN cameras
    ELSE IF ~in_video_devices THEN ParseDeviceList(lines, i + 1, FALSE, cameras)
    ELSE IF IsScreenCapture(lines[i]) THEN ParseDeviceList(lines, i + 1, TRUE, cameras)
    ELSE ParseDeviceList(lines, i + 1, TRUE, cameras \o DeviceEntry(lines[i]))

cameraOthers == << recordingVars, exportVars, formatVars, jobVars >>

(* Command::output fails: the engine could not be run. *)
CameraRunFails ==
    /\ camPc = "start"
    /\ camPc' = "done"
    /\ camResult' = Some(Err(FailedToExecuteMsg))
    /\ UNCHANGED << camStderr, cameraOthers >>

(* The engine ran (its exit status is not looked at); its error stream  *)
(* is parsed.                                                             *)
CameraParse ==
    /\ camPc = "start"
    /\ camPc' = "done"
    /\ camResult' = Some(Ok(ParseDeviceList(camStderr, 1, FALSE, << >>)))
    /\ UNCHANGED << camStderr, cameraOthers >>

CameraInit ==
    /\ RecordingInit
    /\ ExportOff
    /\ FormatOff
    /\ JobOff
    /\ camPc = "start"
    /\ camStderr \in DeviceLists
    /\ camResult = None

CameraNext ==
    \/ CameraRunFails
    \/ CameraParse

CameraSpec == CameraInit /\ [][CameraNext]_vars

(* -------------- transcribe_clip and generate_thumbnail ---------------- *)

ClipIds == { "clip1", "clip2" }
MediaPaths == { "a.mov", "b.mov" }

(* The speech-to-text service's answers and the failures of the request. *)
WhisperResponses ==
    { [text |-> <<"hello">>, language |-> "en"],
      [text |-> << >>, language |-> "en"] }

ReadAudioFailedMsg == Msg("Failed to read audio file: ", << >>)
RequestFailedMsg == Msg("API request failed: ", << >>)
ApiErrorMsg == Msg("API error ", <<"401">>)
ParseResponseFailedMsg == Msg("Failed to parse response: ", << >>)

TranscribeOutcomes ==
    { Ok(w) : w \in WhisperResponses }
        \cup { Err(ReadAudioFailedMsg), Err(RequestFailedMsg), Err(ApiErrorMsg),
               Err(ParseResponseFailedMsg) }

(* extract_audio returns the path of the audio file it wrote, or fails.  *)
AudioPath == "audio.mp3"
ExtractAudioFailedMsg == Msg("Audio extraction failed: ", << >>)
ExtractAudioOutcomes == { Ok(AudioPath), Err(ExtractAudioFailedMsg) }

EmitFailedMsg == Msg("Failed to emit event: ", << >>)
InvalidTempPathMsg == Msg("Invalid temp path", << >>)
ThumbnailFailedMsg == Msg("Thumbnail generation failed: ", << >>)
ReadThumbnailFailedMsg == Msg("Failed to read thumbnail: ", << >>)
ReadContentsFailedMsg == Msg("Failed to read file contents: ", << >>)

(* What the image file may hold. *)
ImageBytes == { <<"ff", "d8">>, << >> }

Base64(buffer) == [encoding |-> "base64", of |-> buffer]

Progress(clip_id, stage, percent) ==
    [clipId |-> clip_id, stage |-> stage, percent |-> percent]

WhisperToTranscript(whisper, clip_id) ==
    [clip_id |-> clip_id, language |-> whisper.language, full_text |-> whisper.text]

NoLocals == [audio_path |-> None, whisper_response |-> None, buffer |-> None]

jobOthers == << recordingVars, exportVars, cameraVars, formatVars >>

JobReturn(value) ==
    /\ jobPc' = "done"
    /\ jobResult' = Some(value)

(* window.emit(...).map_err(...)? : the event goes out, or the call     *)
(* returns the failure.                                                   *)
Emit(from, to, clip_id, stage, percent) ==
    /\ jobArgs.op = "transcribe_clip"
    /\ jobPc = from
    /\ \E delivered \in BOOLEAN :
          IF delivered
          THEN /\ jobEvents' = Append(jobEvents, Progress(clip_id, stage, percent))
               /\ jobPc' = to
               /\ UNCHANGED jobResult
          ELSE /\ JobReturn(Err(EmitFailedMsg))
               /\ UNCHANGED jobEvents
    /\ UNCHANGED << jobArgs, jobFile, jobRemoves, jobLocal, jobOthers >>

TranscribeEmitExtracting ==
    Emit("start", "new", jobArgs.clip_id, "extracting", 0)

(* FFmpegExecutor::new()? *)
TranscribeNew ==
    /\ jobArgs.op = "transcribe_clip"
    /\ jobPc = "new"
    /\ \E found \in BOOLEAN :
          IF found
          THEN jobPc' = "extract" /\ UNCHANGED jobResult
          ELSE JobReturn(Err(BinariesNotFoundMsg))
    /\ UNCHANGED << jobArgs, jobEvents, jobFile, jobRemoves, jobLocal, jobOthers >>

(* executor.extract_audio(...)? *)
TranscribeExtractIgnoresFailure ==
    /\ jobArgs.op = "transcribe_clip"
    /\ jobPc = "extract"
    /\ \E r \in ExtractAudioOutcomes :
          /\ jobLocal' = IF r.tag = "Ok"
                         THEN [jobLocal EXCEPT !.audio_path = Some(r.val)]
                         ELSE jobLocal
          /\ jobFile' = IF r.tag = "Ok" THEN "exists" ELSE jobFile
          /\ jobPc' = "emit_transcribing"
          /\ UNCHANGED jobResult
    /\ UNCHANGED << jobArgs, jobEvents, jobRemoves, jobOthers >>

TranscribeExtract ==
    /\ jobArgs.op = "transcribe_clip"
    /\ jobPc = "extract"
    /\ \E r \in ExtractAudioOutcomes :
          IF r.tag = "Ok"
          THEN /\ jobLocal' = [jobLocal EXCEPT !.audio_path = Some(r.val)]
               /\ jobFile' = "exists"
               /\ jobPc' = "emit_transcribing"
               /\ UNCHANGED jobResult
          ELSE /\ JobReturn(r)
               /\ UNCHANGED << jobLocal, jobFile >>
    /\ UNCHANGED << jobArgs, jobEvents, jobRemoves, jobOthers >>

TranscribeEmitTranscribing ==
    Emit("emit_transcribing", "transcribe", jobArgs.clip_id, "transcribing", 30)

(* client.transcribe(&audio_path, &config).await? *)
TranscribeRequest ==
    /\ jobArgs.op = "transcribe_clip"
    /\ jobPc = "transcribe"
    /\ \E r \in TranscribeOutcomes :
          IF r.tag = "Ok"
          THEN /\ jobLocal' = [jobLocal EXCEPT !.whisper_response = Some(r.val)]
               /\ jobPc' = "remove"
               /\ UNCHANGED jobResult
          ELSE /\ JobReturn(r)
               /\ UNCHANGED jobLocal
    /\ UNCHANGED << jobArgs, jobEvents, jobFile, jobRemoves, jobOthers >>

(* let _ = remove_file(path): the removal is tried, its outcome dropped. *)
RemoveFile(from, to) ==
    /\ jobPc = from
    /\ jobRemoves' = jobRemoves + 1
    /\ \E removed \in BOOLEAN :
          jobFile' = IF removed /\ jobFile = "exists" THEN "removed" ELSE jobFile
    /\ jobPc' = to
    /\ UNCHANGED << jobArgs, jobEvents, jobLocal, jobResult, jobOthers >>

TranscribeRemove ==
    /\ jobArgs.op = "transcribe_clip"
    /\ RemoveFile("remove", "emit_processing")

TranscribeEmitProcessing ==
    Emit("emit_processing", "emit_complete", jobArgs.clip_id, "processing", 90)

(* whisper_to_transcript, the last event, Ok(transcript) *)
TranscribeEmitComplete ==
    /\ jobArgs.op = "transcribe_clip"
    /\ jobPc = "emit_complete"
    /\ LET transcript ==
               WhisperToTranscript(Unwrap(jobLocal.whisper_response), jobArgs.clip_id)
       IN  \E delivered \in BOOLEAN :
              IF delivered
              THEN /\ jobEvents' =
                          Append(jobEvents, Progress(transcript.clip_id, "complete", 100))
                   /\ JobReturn(Ok(transcript))
              ELSE /\ JobReturn(Err(EmitFailedMsg))
                   /\ UNCHANGED jobEvents
    /\ UNCHANGED << jobArgs, jobFile, jobRemoves, jobLocal, jobOthers >>

(* temp_file.to_str().ok_or("Invalid temp path")? *)
ThumbnailTempPath ==
    /\ jobArgs.op = "generate_thumbnail"
    /\ jobPc = "start"
    /\ \E utf8 \in BOOLEAN :
          IF utf8
          THEN jobPc' = "new" /\ UNCHANGED jobResult
          ELSE JobReturn(Err(InvalidTempPathMsg))
    /\ UNCHANGED << jobArgs, jobEvents, jobFile, jobRemoves, jobLocal, jobOthers >>

(* FFmpegExecutor::new()? *)
ThumbnailNew ==
    /\ jobArgs.op = "generate_thumbnail"
    /\ jobPc = "new"
    /\ \E found \in BOOLEAN :
          IF found
          THEN jobPc' = "engine" /\ UNCHANGED jobResult
          ELSE JobReturn(Err(BinariesNotFoundMsg))
    /\ UNCHANGED << jobArgs, jobEvents, jobFile, jobRemoves, jobLocal, jobOthers >>

(* executor.generate_thumbnail(...)? : the engine cannot be run, ends    *)
(* with a failure status (having written the file or not), or succeeds.  *)
ThumbnailEngine ==
    /\ jobArgs.op = "generate_thumbnail"
    /\ jobPc = "engine"
    /\ \/ /\ JobReturn(Err(ExecutionFailedMsg))
          /\ UNCHANGED jobFile
       \/ /\ JobReturn(Err(ThumbnailFailedMsg))
          /\ jobFile' \in { "none", "exists" }
       \/ /\ jobPc' = "open"
          /\ jobFile' = "exists"
          /\ UNCHANGED jobResult
    /\ UNCHANGED << jobArgs, jobEvents, jobRemoves, jobLocal, jobOthers >>

(* fs::File::open(temp_path).map_err(...)? *)
ThumbnailOpen ==
    /\ jobArgs.op = "generate_thumbnail"
    /\ jobPc = "open"
    /\ \E opened \in BOOLEAN :
          IF opened
          THEN jobPc' = "read" /\ UNCHANGED jobResult
          ELSE JobReturn(Err(ReadThumbnailFailedMsg))
    /\ UNCHANGED << jobArgs, jobEvents, jobFile, jobRemoves, jobLocal, jobOthers >>

(* file.read_to_end(&mut buffer).map_err(...)? *)
ThumbnailRead ==
    /\ jobArgs.op = "generate_thumbnail"
    /\ jobPc = "read"
    /\ \/ /\ JobReturn(Err(ReadContentsFailedMsg))
          /\ UNCHANGED jobLocal
       \/ /\ \E bytes \in ImageBytes :
                jobLocal' = [jobLocal EXCEPT !.buffer = Some(bytes)]
          /\ jobPc' = "remove"
          /\ UNCHANGED jobResult
    /\ UNCHANGED << jobArgs, jobEvents, jobFile, jobRemoves, jobOthers >>

ThumbnailRemove ==
    /\ jobArgs.op = "generate_thumbnail"
    /\ RemoveFile("remove", "encode")

(* base64 of the bytes read *)
ThumbnailEncode ==
    /\ jobArgs.op = "generate_thumbnail"
    /\ jobPc = "encode"
    /\ JobReturn(Ok(Base64(Unwrap(jobLocal.buffer))))
    /\ UNCHANGED << jobArgs, jobEvents, jobFile, jobRemoves, jobLocal, jobOthers >>

JobInit ==
    /\ RecordingInit
    /\ ExportOff
    /\ CameraOff
    /\ FormatOff
    /\ jobPc = "start"
    /\ jobArgs \in
          { [op |-> "transcribe_clip", clip_id |-> c, file_path |-> f] :
                c \in ClipIds, f \in MediaPaths }
              \cup { [op |-> "generate_thumbnail", file_path |-> f] : f \in MediaPaths }
    /\ jobEvents = << >>
    /\ jobFile = "none"
    /\ jobRemoves = 0
    /\ jobLocal = NoLocals
    /\ jobResult = None

JobNext ==
    \/ TranscribeEmitExtracting
    \/ TranscribeNew
    \/ TranscribeExtract
    \/ TranscribeEmitTranscribing
    \/ TranscribeRequest
    \/ TranscribeRemove
    \/ TranscribeEmitProcessing
    \/ TranscribeEmitComplete
    \/ ThumbnailTempPath
    \/ ThumbnailNew
    \/ ThumbnailEngine
    \/ ThumbnailOpen
    \/ ThumbnailRead
    \/ ThumbnailRemove
    \/ ThumbnailEncode

JobSpec == JobInit /\ [][JobNext]_vars

(* ------------------ format_srt_time / format_vtt_time ----------------- *)

MaxHours == 1

(* An f64 is kept exactly: its integer part and the bits of its         *)
(* fraction (frac[i] weighs 2^-i); a result is rounded to 53 significant *)
(* bits, to nearest, ties to even. The arithmetic works on ChunkBits     *)
(* bits at a time.                                                        *)
MantissaBits == 53
ChunkBits == 10

F64(int, frac) == [int |-> int, frac |-> frac]

RECURSIVE BitLen(_)
BitLen(n) == IF n = 0 THEN 0 ELSE 1 + BitLen(n \div 2)

(* The number whose binary digits are bits, and the k binary digits of v. *)
RECURSIVE Value(_)
Value(bits) ==
    IF Len(bits) = 0 THEN 0
    ELSE 2 * Value(SubSeq(bits, 1, Len(bits) - 1)) + bits[Len(bits)]

BitsOf(v, k) == [i \in 1..k |-> (v \div 2 ^ (k - i)) % 2]

LeadingZeros(bits) ==
    IF \A i \in 1..Len(bits) : bits[i] = 0 THEN Len(bits)
    ELSE (CHOOSE i \in 1..Len(bits) :
              bits[i] = 1 /\ \A j \in 1..(i - 1) : bits[j] = 0) - 1

(* bits + one unit in the last place: the new bits and the carry out. *)
IncBits(bits) ==
    IF \A i \in 1..Len(bits) : bits[i] = 1
    THEN [bits |-> [i \in 1..Len(bits) |-> 0], carry |-> 1]
    ELSE LET last == CHOOSE i \in 1..Len(bits) :
                         bits[i] = 0 /\ \A j \in (i + 1)..Len(bits) : bits[j] = 1
         IN  [bits |-> [i \in 1..Len(bits) |->
                           IF i < last THEN bits[i] ELSE IF i = last THEN 1 ELSE 0],
              carry |-> 0]

(* How many fraction bits an f64 with this integer part keeps. *)
Keep(int, bits) ==
    IF int > 0 THEN MantissaBits - BitLen(int) ELSE LeadingZeros(bits) + MantissaBits

(* The f64 nearest to int + 0.bits (+ something below the last bit when *)
(* sticky).                                                               *)
Round(int, bits, sticky) ==
    LET keep == Keep(int, bits)
    IN  IF Len(bits) <= keep THEN F64(int, bits)
        ELSE LET kept == SubSeq(bits, 1, keep)
                 below == sticky \/ \E i \in (keep + 2)..Len(bits) : bits[i] = 1
                 odd == IF keep = 0 THEN int % 2 = 1 ELSE kept[keep] = 1
             IN  IF bits[keep + 1] = 1 /\ (below \/ odd)
                 THEN LET up == IncBits(kept)
                      IN  F64(int + up.carry, up.bits)
                 ELSE F64(int, kept)

(* Long division of rem + 0.frac by d, ChunkBits quotient bits a step,  *)
(* until more bits than the mantissa holds are known or nothing is left.  *)
RECURSIVE DivBits(_, _, _, _, _)
DivBits(rem, frac, d, whole, acc) ==
    IF \/ Len(acc) > Keep(whole, acc)
       \/ (rem = 0 /\ Len(frac) = 0)
    THEN [bits |-> acc, sticky |-> rem # 0 \/ \E i \in 1..Len(frac) : frac[i] = 1]
    ELSE LET chunk == [i \in 1..ChunkBits |-> IF i <= Len(frac) THEN frac[i] ELSE 0]
             t == rem * 2 ^ ChunkBits + Value(chunk)
         IN  DivBits(t % d,
                     IF Len(frac) <= ChunkBits THEN << >>
                     ELSE SubSeq(frac, ChunkBits + 1, Len(frac)),
                     d, whole,
                     acc \o BitsOf(t \div d, ChunkBits))

(* x / d for a whole d *)
F64Div(x, d) ==
    LET q == DivBits(x.int % d, x.frac, d, x.int \div d, << >>)
    IN  Round(x.int \div d, q.bits, q.sticky)

(* x % d for a whole d: exact *)
F64Rem(x, d) == F64(x.int % d, x.frac)

(* 0.frac * c exactly, from the last bits up: the whole part and the    *)
(* bits of the fraction.                                                  *)
RECURSIVE MulBits(_, _, _, _)
MulBits(frac, c, carry, acc) ==
    IF Len(frac) = 0 THEN [carry |-> carry, bits |-> acc]
    ELSE LET k == IF Len(frac) < ChunkBits THEN Len(frac) ELSE ChunkBits
             t == Value(SubSeq(frac, Len(frac) - k + 1, Len(frac))) * c + carry
         IN  MulBits(SubSeq(frac, 1, Len(frac) - k), c, t \div 2 ^ k,
                     BitsOf(t % 2 ^ k, k) \o acc)

(* x * c for a whole c *)
F64Mul(x, c) ==
    LET p == MulBits(x.frac, c, 0, << >>)
    IN  Round(x.int * c + p.carry, p.bits, FALSE)

(* .floor() as i32 *)
Floor(x) == x.int

(* The time of a whole number of milliseconds, as the f64 of its seconds. *)
Seconds(millis) == F64Div(F64(millis, << >>), 1000)

DigitChars == << "0", "1", "2", "3", "4", "5", "6", "7", "8", "9" >>

RECURSIVE Decimal(_)
Decimal(n) ==
    IF n < 10 THEN << DigitChars[n + 1] >>
    ELSE Append(Decimal(n \div 10), DigitChars[(n % 10) + 1])

(* {:0width} *)
RECURSIVE ZeroPad(_, _)
ZeroPad(text, width) ==
    IF Len(text) >= width THEN text ELSE ZeroPad(<< "0" >> \o text, width)

Padded(n, width) == ZeroPad(Decimal(n), width)

FormatTime(seconds, separator) ==
    LET hours == Floor(F64Div(seconds, 3600))
        minutes == Floor(F64Div(F64Rem(seconds, 3600), 60))
        secs == Floor(F64Rem(seconds, 60))
        millis == Floor(F64Mul(F64Rem(seconds, 1), 1000))
    IN  Padded(hours, 2) \o << ":" >> \o Padded(minutes, 2) \o << ":" >>
            \o Padded(secs, 2) \o << separator >> \o Padded(millis, 3)

format_srt_time(seconds) == FormatTime(seconds, ",")
format_vtt_time(seconds) == FormatTime(seconds, ".")

(* Times to format: every millisecond of a few whole seconds. *)
WholeSeconds ==
    { 0, 1, 59, 60, 125 } \cup { 3600 * h + s : h \in 0..MaxHours, s \in { 0, 3599 } }

FormatInputs == { 1000 * s + ms : s \in WholeSeconds, ms \in 0..999 }

formatOthers == << recordingVars, exportVars, cameraVars, jobVars >>

FormatSrt ==
    /\ fmtPc = "start"
    /\ fmtSrt = None
    /\ fmtSrt' = Some(format_srt_time(Seconds(fmtMillis)))
    /\ fmtPc' = IF IsSome(fmtVtt) THEN "done" ELSE "start"
    /\ UNCHANGED << fmtMillis, fmtVtt, formatOthers >>

FormatVtt ==
    /\ fmtPc = "start"
    /\ fmtVtt = None
    /\ fmtVtt' = Some(format_vtt_time(Seconds(fmtMillis)))
    /\ fmtPc' = IF IsSome(fmtSrt) THEN "done" ELSE "start"
    /\ UNCHANGED << fmtMillis, fmtSrt, formatOthers >>

FormatInit ==
    /\ RecordingInit
    /\ ExportOff
    /\ CameraOff
    /\ JobOff
    /\ fmtPc = "start"
    /\ fmtMillis \in FormatInputs
    /\ fmtSrt = None
    /\ fmtVtt = None

FormatNext ==
    \/ FormatSrt
    \/ FormatVtt

FormatSpec == FormatInit /\ [][FormatNext]_vars

(* ------------------------------ claims -------------------------------- *)

IsStart(c) == c.op \in { "start_screen", "start_webcam" }

(* A stop call of worker t has returned after passing its precondition. *)
StopReturned(t) ==
    /\ pc[t] = "done"
    /\ call[t].op = "stop"
    /\ result[t] # Some(Err(NotRecordingMsg))

(* Children that were spawned and are not reaped yet. *)
Unreaped == { p \in ProcIds : procs[p].st \in { "running", "exited" } }

(* C1: concurrent start calls issued while the session is idle never lead *)
(* to two spawned, not-yet-reaped capture processes existing at once.     *)
C1_AtMostOneCaptureProcess == Cardinality(Unreaped) <= 1

(* C2: a start call whose check runs while the session is recording       *)
(* returns the AlreadyRecording error at once, spawns nothing, and leaves *)
(* the session fields and the stored handle as they were.                 *)
C2_StartWhileRecordingRejected ==
    [][\A t \in Threads :
          (state.is_recording /\ StartCheck(t)) =>
             /\ pc'[t] = "done"
             /\ result'[t] = Some(Err(AlreadyRecordingMsg))
             /\ state' = state
             /\ process' = process
             /\ procs' = procs
             /\ nspawned' = nspawned]_vars

C2_Witness ==
    \E t \in Threads :
       /\ pc[t] = "done"
       /\ IsStart(call[t])
       /\ result[t] = Some(Err(AlreadyRecordingMsg))
       /\ state.is_recording
       /\ state.output_path # Some(call[t].output_path)
       /\ process # None

(* C3: a stop call whose check runs while the session is idle returns the *)
(* NotRecording error and changes neither the session fields nor the      *)
(* process storage, its lock, or any process.                             *)
C3_StopWhileIdleRejected ==
    [][\A t \in Threads :
          (~state.is_recording /\ StopCheck(t)) =>
             /\ pc'[t] = "done"
             /\ result'[t] = Some(Err(NotRecordingMsg))
             /\ state' = state
             /\ process' = process
             /\ processLock' = processLock
             /\ procs' = procs
             /\ takes' = takes]_vars

C3_Witness ==
    \E t \in Threads :
       /\ pc[t] = "done"
       /\ call[t].op = "stop"
       /\ result[t] = Some(Err(NotRecordingMsg))
       /\ ~state.is_recording

(* C4: no capture process is ever left unreaped without a handle: a stop  *)
(* that returns has reaped the process it took, and a process spawned by  *)
(* a start stays reachable through the shared slot or a running call.     *)
C4_NoProcessLeaked == \A p \in Unreaped : HasHandle(p)

(* C5: every stop call that passed its precondition has, when it returns, *)
(* written is_recording = false and start_time = None to the session.     *)
C5_StopAlwaysClears ==
    \A t \in Threads :
       StopReturned(t) =>
          /\ IsSome(wrote[t])
          /\ Unwrap(wrote[t]).is_recording = FALSE
          /\ Unwrap(wrote[t]).start_time = None

(* A stop that found no handle in the slot has returned. *)
C5_Witness ==
    \E t \in Threads :
       /\ StopReturned(t)
       /\ result[t] = Some(Err(ProcessNotFoundMsg))
       /\ IsSome(wrote[t])

(* C6: in every reachable state, is_recording = false implies that        *)
(* start_time is None and that the shared process slot is empty.          *)
C6_IdleHoldsNothing ==
    ~state.is_recording => (state.start_time = None /\ process = None)

(* C7: status reports elapsed = 0 whenever it reports isRecording = false, *)
(* and it reports both whenever the last write to the session was a       *)
(* stop's (a start followed by a stop that has cleared the session).      *)
C7_StatusAfterStop ==
    LET s == StatusJson(state, now) IN
       /\ ~s.isRecording => s.elapsed = 0
       /\ lastWrite = "stop" => (~s.isRecording /\ s.elapsed = 0)

(* A status call answered after a start and a stop, with the clock moved. *)
C7_Witness ==
    \E t \in Threads :
       /\ pc[t] = "done"
       /\ call[t].op = "status"
       /\ lastWrite = "stop"
       /\ now > 0
       /\ result[t] = Some([tag |-> "Ok", json |-> StatusJson(state, now)])
       /\ IsSome(state.output_path)

C9_DrainAlwaysYieldsDiagnostic ==
    \A t \in Threads :
       (pc[t] = "stop_wait" /\ ~IsEmpty(Unwrap(stderrOut[t]))) =>
          LET text == Unwrap(stderrOut[t])
              perm == Contains(text, <<"Permission", "denied">>)
                         \/ Contains(text, <<"No", "permission">>)
              dev == Contains(text, <<"Device", "not", "found">>)
                        \/ Contains(text, <<"No", "such", "device">>)
          IN /\ IsSome(errMsg[t])
             /\ perm => errMsg[t] = Some(PermissionDeniedMsg)
             /\ (~perm /\ dev) => errMsg[t] = Some(CameraNotFoundMsg)
             /\ (~perm /\ ~dev) => Unwrap(errMsg[t]).text = text

(* C10: a process handle is taken out of the shared slot by at most one   *)
(* stop call; while a call owns it the slot does not hold it, and no two  *)
(* calls own the same handle.                                             *)
C10_HandleTakenOnce ==
    /\ \A p \in ProcIds : takes[p] <= 1
    /\ \A t \in Threads : IsSome(child[t]) => process # child[t]
    /\ \A t1, t2 \in Threads :
          (t1 # t2 /\ IsSome(child[t1])) => child[t1] # child[t2]

(* Two stop calls passed the precondition of one session: one took the    *)
(* handle and is shutting the process down, the other waits for the lock. *)
C10_Witness ==
    \E t1, t2 \in Threads :
       /\ t1 # t2
       /\ call[t1].op = "stop" /\ call[t2].op = "stop"
       /\ pc[t1] = "stop_drain"
       /\ pc[t2] = "stop_take"
       /\ IsSome(child[t1])
       /\ takes[Unwrap(child[t1])] = 1

(* A worker is free to pick up the next command. *)
Free(t) == pc[t] \in { "idle", "done" }

(* Worker t is inside a start or stop call whose next step spawns the     *)
(* capture process, sleeps a grace period, or waits for the process.      *)
Suspending(t) ==
    pc[t] \in { "start_spawn", "start_sleep", "stop_sleep", "stop_drain", "stop_wait" }

(* C11: the state lock is the only lock a status call needs, and it is    *)
(* never held between two steps of a start or a stop; so whenever a       *)
(* worker is free (and the call budget lasts) a status call can run to    *)
(* completion, whatever step the other worker's start or stop is at.      *)
C11_StatusNeverBlocked ==
    /\ \A t \in Threads : Suspending(t) => stateLock = NoThread
    /\ \A t \in Threads :
          (Free(t) /\ ncalls < MaxCalls) => ENABLED StatusRead(t)

(* A stop sleeps its grace period holding the process lock, and the       *)
(* other worker can run a status call to completion right then.           *)
C11_Witness ==
    \E t, u \in Threads :
       /\ pc[t] = "stop_sleep" /\ sleepLeft[t] > 0 /\ processLock = t
       /\ Free(u) /\ ncalls < MaxCalls
       /\ ENABLED StatusRead(u)

Built == exPc \in { "run", "done" } /\ IsSome(exFilter)
Segments == SubSeq(Unwrap(exFilter), 1, Len(Unwrap(exFilter)) - 1)
Concat == Unwrap(exFilter)[Len(Unwrap(exFilter))]

SegmentDuration(f) == IF f.op = "color" THEN f.d ELSE f.duration

(* Sum of the durations of the first k segments. *)
RECURSIVE SumDurations(_, _)
SumDurations(segs, k) ==
    IF k = 0 THEN 0 ELSE SumDurations(segs, k - 1) + SegmentDuration(segs[k])

ClipEnd(clip) == clip.start_time + clip.duration

(* Where the clip before position i ends (0 before the first clip). *)
PrevEnd(clips, i) == IF i = 1 THEN 0 ELSE ClipEnd(clips[i - 1])

SortedNoOverlap(clips) ==
    \A i \in 1..Len(clips) : clips[i].start_time >= PrevEnd(clips, i)

(* Strictly positive gaps of a timeline, the trailing one included. *)
NGaps(clips, composition_length) ==
    Cardinality({ i \in 1..Len(clips) : clips[i].start_time > PrevEnd(clips, i) })
      + (IF composition_length > PrevEnd(clips, Len(clips) + 1) THEN 1 ELSE 0)

SegmentLabels == [k \in 1..Len(Segments) |-> Segments[k].out]

RecognizedResolution == exArgs.resolution \in { "720p", "1080p", "source" }

(* C13 as stated: for a sorted timeline without overlaps the compositor   *)
(* emits 2*n_gaps + n_clips segments and the concat lists that many       *)
(* labels, in emission order.                                             *)
C13_SegmentCountTwiceTheGaps ==
    (Built /\ SortedNoOverlap(exArgs.clips)) =>
        LET n == 2 * NGaps(exArgs.clips, exArgs.composition_length) + Len(exArgs.clips)
        IN  /\ Len(Segments) = n
            /\ Concat.n = n
            /\ Concat.inputs = SegmentLabels

(* C13, amended: for a sorted timeline without overlaps the compositor    *)
(* emits n_gaps + n_clips segments (one per gap, one per clip); the       *)
(* concat's n is that number and its inputs are the segments' labels in   *)
(* emission order.                                                        *)
C13_SegmentCount ==
    (Built /\ SortedNoOverlap(exArgs.clips)) =>
        LET n == NGaps(exArgs.clips, exArgs.composition_length) + Len(exArgs.clips)
        IN  /\ Len(Segments) = n
            /\ Concat.n = n
            /\ Len(Concat.inputs) = n
            /\ Concat.inputs = SegmentLabels

(* Two clips with a gap between them and a trailing gap. *)
C13_Witness ==
    /\ Built /\ SortedNoOverlap(exArgs.clips)
    /\ Len(exArgs.clips) = 2
    /\ NGaps(exArgs.clips, exArgs.composition_length) = 2
    /\ Len(Segments) = 4 /\ Concat.n = 4

(* C14: for a sorted timeline without overlaps the durations of all       *)
(* emitted segments sum to composition_length, whatever its value.        *)
C14_DurationsSumToLength ==
    (Built /\ SortedNoOverlap(exArgs.clips)) =>
        SumDurations(Segments, Len(Segments)) = exArgs.composition_length

(* C15: for a sorted timeline without overlaps, the segments emitted      *)
(* before the segment of clip i last exactly clip i's start_time.         *)
C15_ClipAtItsOffset ==
    (Built /\ SortedNoOverlap(exArgs.clips)) =>
        \A k \in 1..Len(Segments) :
           Segments[k].op = "trim" =>
              SumDurations(Segments, k - 1) = exArgs.clips[Segments[k].input + 1].start_time

(* Two clips, each after a gap, placed by the compositor. *)
C15_Witness ==
    /\ Built /\ SortedNoOverlap(exArgs.clips)
    /\ Len(exArgs.clips) = 2
    /\ exArgs.clips[1].start_time > 0
    /\ exArgs.clips[2].start_time > ClipEnd(exArgs.clips[1])
    /\ Segments[4].op = "trim" /\ Segments[4].input = 1

(* C16: when composition_length equals the end of the last clip, no       *)
(* trailing gap is emitted: the last segment, and the last label of the   *)
(* concat, is the last clip's.                                            *)
C16_NoTrailingGapWhenLengthIsEnd ==
    (Built /\ exArgs.composition_length = ClipEnd(exArgs.clips[Len(exArgs.clips)])) =>
        LET last == Label("clip", Len(exArgs.clips) - 1)
        IN  /\ Segments[Len(Segments)].op = "trim"
            /\ Segments[Len(Segments)].out = last
            /\ Concat.inputs[Len(Concat.inputs)] = last
            /\ \A k \in 1..Len(Segments) :
                  Segments[k].out # Label("gap", Len(exArgs.clips))

(* A two-clip timeline whose composition_length is its last clip's end. *)
C16_Witness ==
    /\ Built
    /\ Len(exArgs.clips) = 2
    /\ exArgs.composition_length = ClipEnd(exArgs.clips[2])
    /\ Concat.inputs[Len(Concat.inputs)] = Label("clip", 1)

(* C17: with an empty clip list the export never builds a filter graph    *)
(* and never invokes the engine, and it ends with the "No clips to        *)
(* export" error, whatever the resolution and composition_length.         *)
C17_EmptyListFails ==
    Len(exArgs.clips) = 0 =>
        /\ exPc \in { "off", "start", "done" }
        /\ exFilter = None
        /\ exRuns = 0
        /\ exPc = "done" => exResult = Some(Err(NoClipsMsg))

(* An export of no clips at an unknown resolution has failed. *)
C17_Witness ==
    /\ exPc = "done"
    /\ Len(exArgs.clips) = 0
    /\ exArgs.resolution = "4k"
    /\ exArgs.composition_length > 0
    /\ exResult = Some(Err(NoClipsMsg))

(* C18: with a resolution name other than 720p, 1080p and source the      *)
(* compositor returns an error and no filter; the export never invokes    *)
(* the engine and ends with an error.                                     *)
C18_UnknownResolutionFails ==
    (exPc # "off" /\ ~RecognizedResolution) =>
        /\ BuildFilterComplex(exArgs.clips, exArgs.resolution, exArgs.fps,
                              exArgs.composition_length)
              = Err(InvalidResolutionMsg(exArgs.resolution))
        /\ exFilter = None
        /\ exRuns = 0
        /\ exPc # "run"
        /\ exPc = "done" => Unwrap(exResult).tag = "Err"

(* An export of two clips at an unknown resolution has failed. *)
C18_Witness ==
    /\ exPc = "done"
    /\ Len(exArgs.clips) = 2
    /\ ~RecognizedResolution
    /\ exResult = Some(Err(InvalidResolutionMsg(exArgs.resolution)))
    /\ exRuns = 0

(* C19: the labels of the emitted segments are pairwise distinct, and     *)
(* the concat names each of them exactly once, for every clip list and    *)
(* composition_length.                                                    *)
C19_LabelsDistinct ==
    Built =>
        /\ \A i, j \in 1..Len(Segments) : i # j => Segments[i].out # Segments[j].out
        /\ \A k \in 1..Len(Segments) :
              Cardinality({ j \in 1..Len(Concat.inputs) :
                               Concat.inputs[j] = Segments[k].out }) = 1
        /\ Len(Concat.inputs) = Len(Segments)

(* A gap before each of two clips and a trailing gap: five labels. *)
C19_Witness ==
    /\ Built
    /\ Len(exArgs.clips) = 2
    /\ Len(Segments) = 5
    /\ Segments[3].out = Label("gap", 1)
    /\ Segments[5].out = Label("gap", 2)

(* C20: an export of a non-empty list at a recognized resolution invokes  *)
(* the engine exactly once; it returns Ok when, and only when, that       *)
(* invocation exited successfully, and Err on a non-zero exit.            *)
C20_OneInvocationDecides ==
    /\ exRuns <= 1
    /\ (exPc = "done" /\ Len(exArgs.clips) > 0 /\ RecognizedResolution) =>
          /\ exRuns = 1
          /\ Unwrap(exResult).tag = "Ok" <=> exStatus = Some("exit0")
          /\ exStatus = Some("exit1") => exResult = Some(Err(ExportFailedMsg))

(* The engine ran once, exited non-zero, and the export failed. *)
C20_Witness ==
    /\ exPc = "done" /\ Len(exArgs.clips) > 0 /\ RecognizedResolution
    /\ exRuns = 1
    /\ exStatus = Some("exit1")
    /\ exResult = Some(Err(ExportFailedMsg))

(* ---------------------- claims about list_cameras --------------------- *)

CamDone == camPc = "done" /\ IsSome(camResult) /\ Unwrap(camResult).tag = "Ok"
Cameras == Unwrap(camResult).val

(* The lines of the video section: after a video header and before the  *)
(* first audio header, the headers themselves left out.                   *)
AudioAt(i) == IsAudioHeader(camStderr[i]) /\ ~IsVideoHeader(camStderr[i])

InVideoSection(i) ==
    /\ ~IsVideoHeader(camStderr[i])
    /\ \E j \in 1..(i - 1) : IsVideoHeader(camStderr[j])
    /\ \A k \in 1..i : ~AudioAt(k)

(* A line naming a screen-capture device. *)
NamesScreen(line) ==
    \E k \in 1..(Len(line) - 2) :
        line[k] = "Capture" /\ line[k + 1] = Blank /\ line[k + 2] = "screen"

(* "[", a decimal index, "]" somewhere on the line. *)
HasBracketedIndex(line) ==
    \E k \in 1..(Len(line) - 2) :
        line[k] = "[" /\ line[k + 1] \in U32Tokens /\ line[k + 2] = "]"

(* The engine's device line: the index stands right after the last      *)
(* "] [" of the trimmed line and a name follows it.                       *)
IsDeviceLine(line) ==
    LET t == Trim(line)
    IN  \E k \in 1..Len(t) :
            /\ k + 4 < Len(t)
            /\ t[k] = "]" /\ t[k + 1] = Blank /\ t[k + 2] = "["
            /\ \A m \in (k + 1)..(Len(t) - 2) :
                   ~(t[m] = "]" /\ t[m + 1] = Blank /\ t[m + 2] = "[")
            /\ t[k + 3] \in U32Tokens
            /\ t[k + 4] = "]"
            /\ \E m \in (k + 5)..Len(t) : t[m] # Blank

IndexOf(line) ==
    LET t == Trim(line)
        k == CHOOSE k \in 1..Len(t) :
                 /\ t[k] = "[" /\ t[k + 1] \in U32Tokens /\ t[k + 2] = "]"
                 /\ \A m \in (k + 1)..(Len(t) - 2) : t[m] # "["
    IN  IF t[k + 1] = "0" THEN 0 ELSE 1

NameOf(line) ==
    LET t == Trim(line)
        k == CHOOSE k \in 1..Len(t) :
                 t[k] = "[" /\ \A m \in (k + 1)..Len(t) : t[m] # "["
        first == CHOOSE m \in (k + 3)..Len(t) :
                     t[m] # Blank /\ \A n \in (k + 3)..(m - 1) : t[n] = Blank
    IN  SubSeq(t, first, Len(t))

BracketedLines ==
    { i \in 1..Len(camStderr) :
        InVideoSection(i) /\ ~NamesScreen(camStderr[i])
        /\ HasBracketedIndex(camStderr[i]) }

DeviceLines ==
    { i \in 1..Len(camStderr) :
        InVideoSection(i) /\ ~NamesScreen(camStderr[i])
        /\ IsDeviceLine(camStderr[i]) }

(* The members of a set of line numbers in ascending order. *)
Ascending(S) ==
    CHOOSE f \in [1..Cardinality(S) -> S] :
        \A a, b \in 1..Cardinality(S) : a < b => f[a] < f[b]

SpecExample == << VideoHeaderLine, ScreenLine, BareCameraLine, AudioHeaderLine >>

(* C21, as stated: every line of the video section that is not a screen *)
(* capture and carries a bracketed index yields one entry, and the block *)
(* video header, screen line, "[0] Built-in Camera", audio header yields *)
(* exactly the entry (0, "Built-in Camera").                             *)
C21_EveryBracketedLineYieldsEntry ==
    CamDone =>
        /\ Len(Cameras) = Cardinality(BracketedLines)
        /\ camStderr = SpecExample =>
               Cameras = << CameraInfo(0, <<"Built-in", Blank, "Camera">>) >>

(* C21, amended: the entries are, in order, those of the lines of the   *)
(* video section that are not screen captures and have the engine's      *)
(* device-line form "...] [<index>] <name>" with a non-empty name; lines *)
(* before the video header and from the audio header on, screen lines    *)
(* and lines of any other form yield nothing.                            *)
C21_DeviceLinesYieldEntries ==
    CamDone =>
        LET order == Ascending(DeviceLines)
        IN  /\ Len(Cameras) = Cardinality(DeviceLines)
            /\ \A n \in 1..Len(Cameras) :
                   Cameras[n] = CameraInfo(IndexOf(camStderr[order[n]]),
                                           NameOf(camStderr[order[n]]))

(* The engine's own block: header, screen line, camera line, audio      *)
(* header, parsed to the one camera.                                     *)
C21_Witness ==
    /\ CamDone
    /\ camStderr = << VideoHeaderLine, ScreenLine, CameraLine, AudioHeaderLine >>
    /\ Cameras = << CameraInfo(0, <<"Built-in", Blank, "Camera">>) >>


(* ------------- claims about the transcription pipeline ---------------- *)

Stages == << "extracting", "transcribing", "processing", "complete" >>

EmittedStages == [n \in 1..Len(jobEvents) |-> jobEvents[n].stage]

(* C22: the stages emitted so far are always an initial part of          *)
(* extracting, transcribing, processing, complete (so they come in that   *)
(* order, each at most once, none before an earlier one), and complete is *)
(* among them only when extract_audio returned a path and the             *)
(* speech-to-text request returned a response.                            *)
C22_ProgressInOrder ==
    /\ Len(jobEvents) <= Len(Stages)
    /\ EmittedStages = SubSeq(Stages, 1, Len(jobEvents))
    /\ (\E n \in 1..Len(jobEvents) : jobEvents[n].stage = "complete") =>
           /\ IsSome(jobLocal.audio_path)
           /\ IsSome(jobLocal.whisper_response)

(* A call that went through all four stages. *)
C22_Witness ==
    /\ jobPc = "done"
    /\ Unwrap(jobResult).tag = "Ok"
    /\ EmittedStages = Stages

(* The call has returned after its temporary file was written: by        *)
(* extract_audio, or by an engine run that ended successfully.             *)
ReturnedWithFile ==
    /\ jobPc = "done"
    /\ jobFile # "none"
    /\ jobResult # Some(Err(ThumbnailFailedMsg))

(* C29: when a call has returned after its temporary file was written,    *)
(* removal of the file was attempted.                                      *)
C29_CleanupOnEveryExit ==
    ReturnedWithFile => jobRemoves > 0

(* ---------------------- claims about time formatting ------------------ *)

DigitValue(c) == (CHOOSE i \in 1..10 : DigitChars[i] = c) - 1

RECURSIVE Number(_)
Number(text) ==
    IF Len(text) = 0 THEN 0
    ELSE 10 * Number(SubSeq(text, 1, Len(text) - 1)) + DigitValue(text[Len(text)])

IsDigits(text) == \A i \in 1..Len(text) : \E d \in 1..10 : DigitChars[d] = text[i]

(* text is HH:MM:SS<separator>mmm and its fields recombine to millis. *)
Reads(text, separator, millis) ==
    LET n == Len(text)
    IN  /\ n >= 12
        /\ text[n - 9] = ":" /\ text[n - 6] = ":" /\ text[n - 3] = separator
        /\ IsDigits(SubSeq(text, 1, n - 10))
        /\ IsDigits(SubSeq(text, n - 8, n - 7))
        /\ IsDigits(SubSeq(text, n - 5, n - 4))
        /\ IsDigits(SubSeq(text, n - 2, n))
        /\ Number(SubSeq(text, n - 8, n - 7)) <= 59
        /\ Number(SubSeq(text, n - 5, n - 4)) <= 59
        /\ millis = 3600000 * Number(SubSeq(text, 1, n - 10))
                      + 60000 * Number(SubSeq(text, n - 8, n - 7))
                      + 1000 * Number(SubSeq(text, n - 5, n - 4))
                      + Number(SubSeq(text, n - 2, n))

(* C23: the formatted fields recombine to the time that was formatted,  *)
(* in both formats; the formats differ in the separator only; 125.5 s is *)
(* 00:02:05,500 and 00:02:05.500.                                        *)
C23_FieldsRecombine ==
    /\ IsSome(fmtSrt) => Reads(Unwrap(fmtSrt), ",", fmtMillis)
    /\ IsSome(fmtVtt) => Reads(Unwrap(fmtVtt), ".", fmtMillis)
    /\ (IsSome(fmtSrt) /\ IsSome(fmtVtt)) =>
           \A i \in 1..Len(Unwrap(fmtSrt)) :
               i # Len(Unwrap(fmtSrt)) - 3 => Unwrap(fmtSrt)[i] = Unwrap(fmtVtt)[i]

(* ---------------- further claims about the capture session ------------ *)

(* The child worker t's handler owns (only read where t owns one). *)
Own(t) == Unwrap(child[t])

(* C24: the shutdown of a running child goes quit byte, grace sleep,      *)
(* liveness re-check, kill, wait, in this order: the quit byte starts the *)
(* full grace sleep; the sleep is left only when it is over, for the      *)
(* drain that precedes the wait; and a kill is sent only by the re-check  *)
(* after the sleep, to a child that got the quit byte and is still        *)
(* running, so never to one that exited meanwhile.                        *)
C24_ShutdownOrder ==
    [][ /\ \A p \in ProcIds :
             (procs'[p].quit /\ ~procs[p].quit) =>
                \E t \in Threads :
                   /\ pc[t] = "stop_trywait" /\ child[t] = Some(p)
                   /\ pc'[t] = "stop_sleep"
                   /\ sleepLeft'[t] > 0
        /\ \A p \in ProcIds :
             (procs'[p].killed /\ ~procs[p].killed) =>
                \E t \in Threads :
                   /\ pc[t] = "stop_sleep" /\ sleepLeft[t] = 0 /\ child[t] = Some(p)
                   /\ procs[p].st = "running"
                   /\ procs[p].quit
                   /\ pc'[t] = "stop_drain"
        /\ \A t \in Threads :
             /\ (pc'[t] = "stop_sleep" /\ pc[t] # "stop_sleep") => pc[t] = "stop_trywait"
             /\ (pc[t] = "stop_sleep" /\ pc'[t] # "stop_sleep") =>
                   (sleepLeft[t] = 0 /\ pc'[t] = "stop_drain")
             /\ (pc'[t] = "stop_drain" /\ pc[t] # "stop_drain") => pc[t] = "stop_sleep"
             /\ (pc'[t] = "stop_wait" /\ pc[t] # "stop_wait") => pc[t] = "stop_drain"
      ]_vars

(* A stop has killed the child that outlived the grace sleep and is about *)
(* to drain and wait for it.                                              *)
C24_Witness ==
    \E t \in Threads :
       /\ pc[t] = "stop_drain"
       /\ procs[Own(t)].st = "running"
       /\ procs[Own(t)].killed /\ procs[Own(t)].quit

(* C25 as stated: the grace sleep stop starts after the quit byte lasts   *)
(* 500 ms when the session's recording_type is Screen and 1000 ms when it *)
(* is Webcam.                                                             *)
C25_GraceByKind ==
    [][ \A t \in Threads :
           (pc[t] = "stop_trywait" /\ pc'[t] = "stop_sleep") =>
              sleepLeft'[t] = SleepTicks(IF state.recording_type = Screen
                                         THEN 500 ELSE 1000) ]_vars

(* C25, amended: the grace sleep stop starts after the quit byte lasts    *)
(* 1000 ms whatever the session's recording_type is.                      *)
C25_GraceFixed ==
    [][ \A t \in Threads :
           (pc[t] = "stop_trywait" /\ pc'[t] = "stop_sleep") =>
              sleepLeft'[t] = SleepTicks(1000) ]_vars

(* The stop of a screen session is in its grace sleep with the full       *)
(* 1000 ms ahead.                                                         *)
C25_Witness ==
    \E t \in Threads :
       /\ pc[t] = "stop_sleep"
       /\ state.recording_type = Screen /\ state.is_recording
       /\ procs[Own(t)].quit
       /\ sleepLeft[t] = SleepTicks(1000)

C27_PathAndKindFixedInSession ==
    [][ ( \/ state'.output_path # state.output_path
          \/ state'.recording_type # state.recording_type ) =>
           /\ ~state.is_recording
           /\ \E t \in Threads : pc[t] = "start_update" /\ pc'[t] = "done" ]_vars

StopInProgress(t) ==
    pc[t] \in { "stop_take", "stop_trywait", "stop_sleep", "stop_drain", "stop_wait",
                "stop_update", "stop_validate" }

(* C30: every stop that passed its check returns (and has then cleared    *)
(* the session), given that the clock advances, the handler runs, and a   *)
(* killed child exits.                                                    *)
C30_StopReturns ==
    \A t \in Threads : StopInProgress(t) ~> (pc[t] = "done" /\ IsSome(wrote[t]))

(* Positions of the segments that carry a label. *)
Emitted(label) == { k \in 1..Len(Segments) : Segments[k].out = label }

(* C28: for every clip list, overlapping and unordered ones included, the *)
(* compositor emits a gap before clip i exactly when the clip's           *)
(* start_time lies beyond the cursor (the end of the clip before it, 0    *)
(* at the start), and a trailing gap exactly when the final cursor lies   *)
(* before composition_length; every gap lasts more than 0; and such       *)
(* input is built into a filter without an error.                         *)
C28_GapIffBeyondCursor ==
    /\ (exPc \in { "run", "done" } /\ Len(exArgs.clips) > 0 /\ RecognizedResolution)
          => IsSome(exFilter)
    /\ Built =>
          /\ \A i \in 1..Len(exArgs.clips) :
                /\ Emitted(Label("gap", i - 1)) # {}
                      <=> exArgs.clips[i].start_time > PrevEnd(exArgs.clips, i)
                /\ \A k \in Emitted(Label("gap", i - 1)) :
                      /\ Segments[k].d
                            = exArgs.clips[i].start_time - PrevEnd(exArgs.clips, i)
                      /\ Segments[k + 1].out = Label("clip", i - 1)
          /\ Emitted(Label("gap", Len(exArgs.clips))) # {}
                <=> PrevEnd(exArgs.clips, Len(exArgs.clips) + 1)
                       < exArgs.composition_length
          /\ \A k \in 1..Len(Segments) : Segments[k].op = "color" => Segments[k].d > 0

(* The second clip starts before the first one: the plan was built, with  *)
(* no gap before that clip and with a trailing gap.                       *)
C28_Witness ==
    /\ Built
    /\ Len(exArgs.clips) = 2
    /\ exArgs.clips[2].start_time < exArgs.clips[1].start_time
    /\ Emitted(Label("gap", 1)) = {}
    /\ Emitted(Label("gap", 2)) # {}

(* ------------- claims about the session under interleaving ------------ *)

(* C31: in every reachable state is_recording is true exactly when        *)
(* start_time is set.                                                      *)
C31_RecordingIffStartTime ==
    state.is_recording <=> IsSome(state.start_time)

(* Both fields are set by a start that wrote after a stop had written,    *)
(* while a worker is inside a call of its own.                            *)
C31_Witness ==
    /\ state.is_recording
    /\ IsSome(state.start_time)
    /\ lastWrite = "start"
    /\ \E t \in Threads : IsSome(wrote[t])
    /\ \E t \in Threads : pc[t] \notin { "idle", "done" }

(* A stop has just taken a handle out of the slot. *)
JustTook(t) == pc[t] = "stop_trywait" /\ IsSome(child[t])

(* A stop that passed its check has not yet cleared the session. *)
StopPending(t) == pc[t] \in { "stop_take", "stop_trywait", "stop_sleep",
                               "stop_drain", "stop_wait", "stop_update" }

(* The process in a stop's hands writes the file whose path the stop read. *)
TookOwnSession(t) ==
    JustTook(t) => outPath[t] = Some(procs[Unwrap(child[t])].path)

(* The session is active only with a handle stored, or while a stop that  *)
(* will clear it is on its way.                                            *)
ActiveHasHandle ==
    (state.is_recording /\ ~IsSome(process)) =>
        \/ \E t \in Threads : StopPending(t)
        \/ \E t \in Threads : pc[t] = "start_update"

(* C32: the process a stop takes and shuts down writes to the output_path *)
(* that stop read, so it was spawned by the start call that set that path  *)
(* and not by the start of another session; and no stop leaves the session *)
(* marked active with no process handle stored.                            *)
C32_StopShutsDownItsOwnSession ==
    /\ \A t \in Threads : TookOwnSession(t)
    /\ ActiveHasHandle

(* The stop call of worker t has returned after taking nothing.           *)
StoppedWithoutHandle(t) ==
    /\ pc[t] = "done"
    /\ call[t].op = "stop"
    /\ errMsg[t] = Some(ProcessNotFoundMsg)

(* C33: a stop call that found the process slot empty, because another    *)
(* stop of the same session had taken the handle, does not return the     *)
(* output path: it returns an error.                                       *)
C33_StopWithoutHandleFails ==
    \A t \in Threads :
        StoppedWithoutHandle(t) => Unwrap(result[t]).tag = "Err"

====
